---- MODULE Spec2Model ----
(***************************************************************************)
(* The `orders` resource (Orders.get / list / update / cancel / create)    *)
(* with its deprecated callback convention and order-id validation, the    *)
(* generic Resource it delegates to, the remote Orders API as environment, *)
(* and the `capture` model constructor.                                    *)
(* Record constructors list their fields in one fixed order throughout.    *)
(***************************************************************************)
EXTENDS Integers, Sequences, FiniteSets, TLC

VARIABLES
  orders,     \* the remote collection, in API order
  pc,         \* "idle" | "awaiting" (request in flight) | "done"
  call,       \* arguments of the current Orders call
  superCall,  \* the base Resource call Orders delegated to (or NoCall)
  requests,   \* requests handed to the transport during the current call
  inflight,   \* number of requests awaiting a response
  response,   \* the response the transport produced for the current call
  cbLog,      \* callback invocations of the current call, in order
  promise,    \* the promise returned by the current call
  page,       \* the List the caller received from its previous list call
  props,      \* argument of the Capture constructor
  capture     \* the constructed Capture (or NoCapture)

vars == <<orders, pc, call, superCall, requests, inflight, response, cbLog,
          promise, page, props, capture>>

orderVars == <<orders, pc, call, superCall, requests, inflight, response,
               cbLog, promise, page>>

captureVars == <<props, capture>>

----------------------------------------------------------------------------
(* Bounds *)

MaxOrders == 3
PageSize == 2

----------------------------------------------------------------------------
(* JavaScript values appearing as arguments *)

Undefined == [t |-> "undefined", fn |-> "", from |-> 0]
Null == [t |-> "null", fn |-> "", from |-> 0]
Callback(n) == [t |-> "function", fn |-> n, from |-> 0]
\* a params object; `from` is the pagination cursor it carries (0: none)
Params(c) == [t |-> "object", fn |-> "", from |-> c]

\* typeof x === 'function'
IsFunction(x) == x.t = "function"

\* lodash startsWith(string, target)
startsWith(s, target) ==
  /\ Len(s) >= Len(target)
  /\ SubSeq(s, 1, Len(target)) = target

\* Order.resourcePrefix
resourcePrefix == <<"o", "r", "d", "_">>

OrderId(i) == resourcePrefix \o <<ToString(i)>>

----------------------------------------------------------------------------
(* Errors *)

Absent == "<absent>"
GenericMessage == "<generic>"

\* what is handed to the error handler: a failed response, the literal
\* validation object of Orders, or undefined
Failure(kind, status, detail, message) ==
  [kind |-> kind, status |-> status, detail |-> detail, message |-> message]

\* { error: { message: 'The order id is invalid' } }
InvalidOrderId ==
  Failure("validation", 0, Absent, "The order id is invalid")

UndefinedFailure == Failure("undefined", 0, Absent, Absent)
NoFailure == Failure("none", 0, Absent, Absent)

NoError == [status |-> 0, message |-> "", type |-> "none", cause |-> NoFailure]

ApiErrorIgnoringDetail(f) ==
  [status |-> f.status, message |-> GenericMessage, type |-> "ApiError",
   cause |-> f]

\* the typed error: message from `detail` when present, else generic
ApiError(f) ==
  [status |-> f.status,
   message |-> IF f.detail # Absent THEN f.detail ELSE GenericMessage,
   type |-> "ApiError",
   cause |-> f]

----------------------------------------------------------------------------
(* Results *)

NoOrder == [status |-> "", resource |-> "none", id |-> <<>>]
NoLinks == [next |-> 0, previous |-> 0]

NoValue == [k |-> "undefined", model |-> NoOrder, items |-> <<>>,
            links |-> NoLinks]
ModelValue(m) == [k |-> "model", model |-> m, items |-> <<>>,
                  links |-> NoLinks]
ListValue(items, links) == [k |-> "list", model |-> NoOrder, items |-> items,
                            links |-> links]

CbCall(fn, err, res) == [fn |-> fn, err |-> err, res |-> res]

\* Resource.errorHandler(response, cb): hands the typed error to the callback
\* when there is one (and returns what the callback returns), throws it
\* otherwise
errorHandler(resp, cb) ==
  IF IsFunction(cb)
  THEN [cbs |-> <<CbCall(cb.fn, ApiError(resp), NoValue)>>,
        thrown |-> NoError, ret |-> UndefinedFailure]
  ELSE [cbs |-> <<>>, thrown |-> ApiError(resp), ret |-> UndefinedFailure]

----------------------------------------------------------------------------
(* Orders *)

NoCall == [id |-> <<>>, cb |-> Undefined, method |-> "none",
           params |-> Undefined]
SuperCall(method, id, params, cb) ==
  [id |-> id, cb |-> cb, method |-> method, params |-> params]

Proceed(cbs, sc) == [cbs |-> cbs, thrown |-> NoError, super |-> sc]
Throw(cbs, e) == [cbs |-> cbs, thrown |-> e, super |-> NoCall]

checkOrderIdSkipped(id, cb) == [cbs |-> <<>>, thrown |-> NoError]

checkOrderIdSingleHandler(id, cb) ==
  IF ~startsWith(id, resourcePrefix)
  THEN LET inner == errorHandler(InvalidOrderId, cb)
       IN  [cbs |-> inner.cbs, thrown |-> inner.thrown]
  ELSE [cbs |-> <<>>, thrown |-> NoError]

\* if (!startsWith(id, Order.resourcePrefix)) {
\*   Resource.errorHandler(Resource.errorHandler({error: ...}, cb)); }
checkOrderId(id, cb) ==
  IF ~startsWith(id, resourcePrefix)
  THEN LET inner == errorHandler(InvalidOrderId, cb)
       IN  IF inner.thrown # NoError
           THEN [cbs |-> inner.cbs, thrown |-> inner.thrown]
           ELSE LET outer == errorHandler(inner.ret, Undefined)
                IN  [cbs |-> inner.cbs \o outer.cbs, thrown |-> outer.thrown]
  ELSE [cbs |-> <<>>, thrown |-> NoError]

legacyArgsKeepParams(params, cb) == [cb |-> cb, params |-> params]

\* "Using callbacks (DEPRECATED SINCE 2.2.0)": the (params, cb) pair handed
\* to the base operation
legacyArgs(params, cb) ==
  IF IsFunction(params) \/ IsFunction(cb)
  THEN [cb |-> IF IsFunction(params) THEN params ELSE cb,
        params |-> IF IsFunction(params) THEN Null ELSE params]
  ELSE [cb |-> cb, params |-> params]

OrdersCreate(params, cb) ==
  Proceed(<<>>, SuperCall("create", <<>>, params, cb))

OrdersGet(id, params, cb) ==
  LET v == checkOrderId(id, cb)
      a == legacyArgs(params, cb)
  IN  IF v.thrown # NoError
      THEN Throw(v.cbs, v.thrown)
      ELSE Proceed(v.cbs, SuperCall("get", id, a.params, a.cb))

OrdersListFirstPage(params, cb) ==
  Proceed(<<>>, SuperCall("list", <<>>, Null,
                          IF IsFunction(params) THEN params ELSE cb))

OrdersList(params, cb) ==
  LET a == legacyArgs(params, cb)
  IN  Proceed(<<>>, SuperCall("list", <<>>, a.params, a.cb))

OrdersUpdate(id, data, cb) ==
  LET v == checkOrderId(id, cb)
  IN  IF v.thrown # NoError
      THEN Throw(v.cbs, v.thrown)
      ELSE Proceed(v.cbs, SuperCall("update", id, data, cb))

OrdersCancel(id, params, cb) ==
  LET v == checkOrderId(id, cb)
      a == legacyArgs(params, cb)
  IN  IF v.thrown # NoError
      THEN Throw(v.cbs, v.thrown)
      ELSE Proceed(v.cbs, SuperCall("delete", id, a.params, a.cb))

\* dispatch on the operation of a call record
Invoke(c) ==
  CASE c.op = "create" -> OrdersCreate(c.params, c.cb)
    [] c.op = "get"    -> OrdersGet(c.id, c.params, c.cb)
    [] c.op = "list"   -> OrdersList(c.params, c.cb)
    [] c.op = "update" -> OrdersUpdate(c.id, c.params, c.cb)
    [] c.op = "cancel" -> OrdersCancel(c.id, c.params, c.cb)

----------------------------------------------------------------------------
(* The remote Orders API *)

Min(a, b) == IF a < b THEN a ELSE b
Max(a, b) == IF a > b THEN a ELSE b

Order(i, status) == [status |-> status, resource |-> "order", id |-> OrderId(i)]

Collection(n) == [i \in 1..n |-> Order(i, "created")]

NoBody == [kind |-> "none", links |-> NoLinks, entity |-> NoOrder,
           embedded |-> <<>>, count |-> 0]
EntityBody(e) == [kind |-> "entity", links |-> NoLinks, entity |-> e,
                  embedded |-> <<>>, count |-> 0]
CollectionBody(items, links) ==
  [kind |-> "collection", links |-> links, entity |-> NoOrder,
   embedded |-> items, count |-> Len(items)]

Response(status, detail, body) ==
  [status |-> status, detail |-> detail, body |-> body]

NoResponse == Response(0, Absent, NoBody)

Is2xx(resp) == resp.status >= 200 /\ resp.status <= 299

\* one page of the collection, starting at the cursor (0: from the start)
RemotePage(coll, from) ==
  LET start == IF from = 0 THEN 1 ELSE from
      last  == Min(start + PageSize - 1, Len(coll))
  IN  CollectionBody(
        SubSeq(coll, start, last),
        [next     |-> IF start + PageSize <= Len(coll)
                      THEN start + PageSize ELSE 0,
         previous |-> IF start > 1 /\ Len(coll) > 0
                      THEN Max(1, start - PageSize) ELSE 0])

Details == {Absent, "Not Found"}

Known(coll, id) == \E i \in 1..Len(coll) : coll[i].id = id

Found(coll, id) == coll[CHOOSE i \in 1..Len(coll) : coll[i].id = id]

\* the responses the remote may give to a request
Answers(coll, req) ==
  {Response(0, Absent, NoBody)}
  \cup
  {Response(st, d, NoBody) : st \in {404, 500}, d \in Details}
  \cup
  CASE req.method = "list" ->
         {Response(200, Absent, RemotePage(coll, req.from))}
    [] req.method = "create" ->
         {Response(201, Absent, EntityBody(Order(Len(coll) + 1, "created")))}
    [] req.method \in {"get", "update"} /\ Known(coll, req.id) ->
         {Response(200, Absent, EntityBody(Found(coll, req.id)))}
    [] req.method = "delete" /\ Known(coll, req.id) ->
         {Response(200, Absent,
                   EntityBody([Found(coll, req.id) EXCEPT !.status = "canceled"]))}
    [] OTHER -> {}

----------------------------------------------------------------------------
(* The generic Resource the Orders operations delegate to *)

Request(sc) ==
  [from |-> IF sc.params.t = "object" THEN sc.params.from ELSE 0, id |-> sc.id,
   method |-> sc.method]

NoRequest == [from |-> 0, id |-> <<>>, method |-> "none"]

\* a Model populated from the fields of a single-entity body
OrderModel(e) == [status |-> e.status, resource |-> e.resource, id |-> e.id]

ListFromReversed(body) ==
  ListValue([i \in 1..Len(body.embedded) |->
               OrderModel(body.embedded[Len(body.embedded) + 1 - i])],
            body.links)

\* a List of Models, in response order, with the response's links
ListFrom(body) ==
  ListValue([i \in 1..Len(body.embedded) |-> OrderModel(body.embedded[i])],
            body.links)

Deserialize(body) ==
  IF body.kind = "collection" THEN ListFrom(body)
  ELSE ModelValue(OrderModel(body.entity))

FailureOf(resp) ==
  Failure(IF resp.status = 0 THEN "network" ELSE "http",
          resp.status, resp.detail, Absent)

Pending == [state |-> "pending", value |-> NoValue, error |-> NoError]
Resolved(v) == [state |-> "resolved", value |-> v, error |-> NoError]
Rejected(e) == [state |-> "rejected", value |-> NoValue, error |-> e]

\* completion of a base operation once the transport answered
SuperComplete(sc, resp) ==
  IF Is2xx(resp)
  THEN IF IsFunction(sc.cb)
       THEN [promise |-> Resolved(NoValue),
             cbs |-> <<CbCall(sc.cb.fn, NoError, Deserialize(resp.body))>>]
       ELSE [promise |-> Resolved(Deserialize(resp.body)), cbs |-> <<>>]
  ELSE LET h == errorHandler(FailureOf(resp), sc.cb)
       IN  [promise |-> IF h.thrown # NoError THEN Rejected(h.thrown)
                        ELSE Resolved(NoValue),
            cbs |-> h.cbs]

\* everything the caller can observe of a call c answered by resp
Outcome(c, resp) ==
  LET r == Invoke(c)
  IN  IF r.thrown # NoError
      THEN [requests |-> <<>>, cbLog |-> r.cbs,
            promise |-> Rejected(r.thrown)]
      ELSE LET o == SuperComplete(r.super, resp)
           IN  [requests |-> <<Request(r.super)>>, cbLog |-> r.cbs \o o.cbs,
                promise |-> o.promise]

----------------------------------------------------------------------------
(* The `capture` model: objects are maps from field name to value; a nested *)
(* object is one value, as Object.assign copies it by reference            *)

NullLinks == "{self:null,payment:null,documentation:null}"

\* the field initialisers of class Capture
CaptureDefaults ==
  [f \in {"resource", "id", "mode", "amount", "settlementAmount",
          "paymentId", "createdAt", "_links", "shipmentId", "settlementId"}
     |-> CASE f = "resource" -> "capture"
           [] f = "_links"   -> NullLinks
           [] OTHER          -> "null"]

ObjectAssignKeepTarget(target, source) ==
  [k \in DOMAIN target \cup DOMAIN source |->
     IF k \in DOMAIN target THEN target[k] ELSE source[k]]

\* Object.assign(target, source): every own field of source is set on target
ObjectAssign(target, source) ==
  [k \in DOMAIN target \cup DOMAIN source |->
     IF k \in DOMAIN source THEN source[k] ELSE target[k]]

\* new Capture(props): field initialisers, then Object.assign(this, props)
Capture(p) == ObjectAssign(CaptureDefaults, p)

NoCapture == [model |-> <<>>, built |-> FALSE]
Built(m) == [model |-> m, built |-> TRUE]

----------------------------------------------------------------------------
(* Inputs *)

\* values a response may carry for a field (a field may also be undefined)
FieldValues(f) ==
  CASE f = "resource"    -> {"capture", "payment"}
    [] f = "id"          -> {"cpt_4qqhO89gsT", "undefined"}
    [] f = "amount"      -> {"{currency:EUR,value:10.00}", "null"}
    [] f = "_links"      -> {"{self:a,payment:b,documentation:c}", "{self:a}"}
    [] f = "description" -> {"Quarterly payment", "undefined"}
    [] OTHER             -> {"null", "live"}

\* fields a caller may supply: declared ones and one the class does not declare
PartialFields == {"resource", "id", "amount", "_links", "description"}

PartialProps ==
  UNION {[D -> UNION {FieldValues(f) : f \in D}] : D \in SUBSET PartialFields}

\* a body carrying every declared field
FullProps ==
  {[f \in DOMAIN CaptureDefaults |->
      IF f = "id" THEN i ELSE IF f = "_links" THEN l
      ELSE IF f = "resource" THEN "capture" ELSE "live"] :
     i \in FieldValues("id"), l \in FieldValues("_links")}

PropsArgs ==
  {q \in PartialProps : \A f \in DOMAIN q : q[f] \in FieldValues(f)}
  \cup FullProps

Ids ==
  {OrderId(1), OrderId(MaxOrders + 1), resourcePrefix, <<"o", "r", "d">>,
   <<"p", "a", "y", "_", "1">>, <<"x">> \o resourcePrefix}

Callbacks == {Callback("f"), Callback("g")}
\* params objects without and with an option set
ParamObjects == {Params(0), Params(1)}
\* list params: every cursor of the collection, and one past its end
ListParams == {Params(c) : c \in 0..(MaxOrders + 1)}
ParamArgs == {Undefined, Null, Params(0)} \cup Callbacks
ListArgs == {Undefined, Null} \cup ListParams \cup Callbacks
CbArgs == {Undefined} \cup Callbacks

NoArgs == [id |-> <<>>, cb |-> Undefined, params |-> Undefined, op |-> "none"]
Args(op, id, params, cb) == [id |-> id, cb |-> cb, params |-> params, op |-> op]

----------------------------------------------------------------------------
(* Actions *)

\* the value the caller last received, by callback or by promise
Delivered ==
  IF \E i \in 1..Len(cbLog) : cbLog[i].err = NoError
  THEN cbLog[CHOOSE i \in 1..Len(cbLog) : cbLog[i].err = NoError].res
  ELSE promise.value

\* the synchronous part of a call: r is what the Orders method did before
\* awaiting the transport
Start(c, r) ==
  /\ pc \in {"idle", "done"}
  /\ call' = c
  /\ cbLog' = r.cbs
  /\ response' = NoResponse
  /\ page' = IF pc = "done" /\ Delivered.k = "list" THEN Delivered ELSE page
  /\ IF r.thrown # NoError
     THEN /\ pc' = "done"
          /\ promise' = Rejected(r.thrown)
          /\ superCall' = NoCall
          /\ requests' = <<>>
          /\ inflight' = 0
     ELSE /\ pc' = "awaiting"
          /\ promise' = Pending
          /\ superCall' = r.super
          /\ requests' = <<Request(r.super)>>
          /\ inflight' = 1
  /\ UNCHANGED <<orders, props, capture>>

Create ==
  \E p \in ParamObjects, cb \in CbArgs :
    Start(Args("create", <<>>, p, cb), OrdersCreate(p, cb))

Get ==
  \E id \in Ids, p \in ParamArgs, cb \in CbArgs :
    Start(Args("get", id, p, cb), OrdersGet(id, p, cb))

List ==
  \E p \in ListArgs, cb \in CbArgs :
    Start(Args("list", <<>>, p, cb), OrdersList(p, cb))

Update ==
  \E id \in Ids, d \in ParamObjects, cb \in CbArgs :
    Start(Args("update", id, d, cb), OrdersUpdate(id, d, cb))

Cancel ==
  \E id \in Ids, p \in ParamArgs, cb \in CbArgs :
    Start(Args("cancel", id, p, cb), OrdersCancel(id, p, cb))

\* the transport answers and the base operation completes
Respond ==
  /\ pc = "awaiting"
  /\ \E resp \in Answers(orders, requests[Len(requests)]) :
       LET o == SuperComplete(superCall, resp)
       IN  /\ response' = resp
           /\ cbLog' = cbLog \o o.cbs
           /\ promise' = o.promise
  /\ inflight' = inflight - 1
  /\ pc' = "done"
  /\ UNCHANGED <<orders, call, superCall, requests, page, props, capture>>

\* const capture = new Capture(props)
Construct ==
  /\ ~capture.built
  /\ capture' = Built(Capture(props))
  /\ UNCHANGED <<orderVars, props>>

\* the caller drops the instance and takes another body
Discard ==
  /\ capture.built
  /\ capture' = NoCapture
  /\ props' \in PropsArgs
  /\ UNCHANGED orderVars

Init ==
  /\ orders \in {Collection(n) : n \in 0..MaxOrders}
  /\ pc = "idle"
  /\ call = NoArgs
  /\ superCall = NoCall
  /\ requests = <<>>
  /\ inflight = 0
  /\ response = NoResponse
  /\ cbLog = <<>>
  /\ promise = Pending
  /\ page = NoValue
  /\ props = <<>>
  /\ capture = NoCapture

Next == Create \/ Get \/ List \/ Update \/ Cancel \/ Respond

Spec == Init /\ [][Next]_vars

InitCapture ==
  /\ orders = Collection(0)
  /\ pc = "idle"
  /\ call = NoArgs
  /\ superCall = NoCall
  /\ requests = <<>>
  /\ inflight = 0
  /\ response = NoResponse
  /\ cbLog = <<>>
  /\ promise = Pending
  /\ page = NoValue
  /\ props \in PropsArgs
  /\ capture = NoCapture

NextCapture == Construct \/ Discard

SpecCapture == InitCapture /\ [][NextCapture]_vars

----------------------------------------------------------------------------
(* Properties *)

InvalidIdCall ==
  /\ call.op \in {"get", "update", "cancel"}
  /\ ~startsWith(call.id, resourcePrefix)

UsesCallback == IsFunction(call.params) \/ IsFunction(call.cb)

\* the callback the call is to report to
SuppliedCallback == IF IsFunction(call.params) THEN call.params ELSE call.cb

\* the error the caller received first, by callback or by rejection
DeliveredError == IF cbLog # <<>> THEN cbLog[1].err ELSE promise.error

ResultCount ==
  Cardinality({i \in 1..Len(cbLog) : cbLog[i].err = NoError})
  + (IF promise.state = "resolved" /\ promise.value.k # "undefined"
     THEN 1 ELSE 0)

ErrorCount ==
  Cardinality({i \in 1..Len(cbLog) : cbLog[i].err # NoError})
  + (IF promise.state = "rejected" THEN 1 ELSE 0)

\* C1: an id without the order prefix makes get/update/cancel fail with the
\* validation error, delivered to cb when cb is given and as the rejection
\* otherwise, and nothing is handed to the transport
C1_InvalidIdNeverReachesTransport ==
  InvalidIdCall =>
    /\ pc = "done"
    /\ superCall = NoCall
    /\ requests = <<>>
    /\ inflight = 0
    /\ response = NoResponse
    /\ promise.state = "rejected"
    /\ DeliveredError = ApiError(InvalidOrderId)
    /\ DeliveredError.cause.message = "The order id is invalid"
    /\ ResultCount = 0

C1_Witness ==
  /\ InvalidIdCall
  /\ pc = "done"
  /\ call.op = "cancel"
  /\ IsFunction(call.cb)
  /\ cbLog # <<>>

\* C2: a finished operation has delivered exactly one outcome, a result or
\* an error, never both, never two, never none
C2_ExactlyOneOutcome ==
  pc = "done" => ResultCount + ErrorCount = 1

\* C3: after a response that is not 2xx the caller holds a typed ApiError
\* whose message is the body's detail when present and the generic message
\* otherwise, and no result
C3_NonSuccessYieldsApiError ==
  (pc = "done" /\ superCall # NoCall /\ ~Is2xx(response)) =>
    /\ DeliveredError.type = "ApiError"
    /\ DeliveredError.message =
         (IF response.detail # Absent THEN response.detail ELSE GenericMessage)
    /\ DeliveredError.status = response.status
    /\ ResultCount = 0
    /\ ErrorCount = 1

C3_Witness ==
  /\ pc = "done"
  /\ response.status = 404
  /\ response.detail = "Not Found"
  /\ DeliveredError.message = "Not Found"

\* the same call without any callback
PromiseForm ==
  [call EXCEPT !.params = IF IsFunction(call.params) THEN Undefined
                          ELSE call.params,
               !.cb = Undefined]

\* C4: for a request the remote answered, the callback receives (null, result)
\* exactly when the promise form of the same call resolves with that result
\* on that response, and (error) exactly when it rejects with that error
C4_CallbackMirrorsPromise ==
  (pc = "done" /\ superCall # NoCall /\ UsesCallback) =>
    LET pf == Outcome(PromiseForm, response)
    IN  /\ pf.requests = requests
        /\ pf.cbLog = <<>>
        /\ IF pf.promise.state = "resolved"
           THEN cbLog = <<CbCall(SuppliedCallback.fn, NoError,
                                 pf.promise.value)>>
           ELSE cbLog = <<CbCall(SuppliedCallback.fn, pf.promise.error,
                                 NoValue)>>

C4_Witness ==
  /\ pc = "done"
  /\ call.op = "get"
  /\ IsFunction(call.params)
  /\ response.status = 500
  /\ Len(cbLog) = 1
  /\ cbLog[1].err.type = "ApiError"

\* C5: a call hands exactly one request to the transport, none when the id
\* fails validation; a failed request is not repeated and a page with a next
\* link triggers no further request
C5_OneRequestPerCall ==
  /\ pc = "awaiting" => (Len(requests) = 1 /\ inflight = 1)
  /\ pc = "done" =>
       /\ inflight = 0
       /\ Len(requests) = (IF InvalidIdCall THEN 0 ELSE 1)

C5_Witness ==
  /\ pc = "done"
  /\ call.op = "list"
  /\ Is2xx(response)
  /\ Delivered.links.next # 0
  /\ Len(requests) = 1

\* the items of the collection that follow the last item of a page
Following(coll, pg) ==
  LET n == CHOOSE i \in 1..Len(coll) :
             OrderModel(coll[i]) = pg.items[Len(pg.items)]
  IN  [i \in 1..(Min(n + PageSize, Len(coll)) - n) |-> OrderModel(coll[n + i])]

FollowsNextLink ==
  /\ call.op = "list"
  /\ page.k = "list"
  /\ page.links.next # 0
  /\ call.params = Params(page.links.next)

\* C6: listing with the cursor of the previous page's next link requests
\* exactly that cursor and yields the items that follow that page; a page
\* without next link ends the collection; one call fetches one page
C6_CallerDrivenPagination ==
  /\ (pc # "idle" /\ FollowsNextLink) =>
       /\ requests = <<[from |-> page.links.next, id |-> <<>>,
                        method |-> "list"]>>
       /\ (pc = "done" /\ Is2xx(response)) =>
            /\ Delivered.k = "list"
            /\ Delivered.items = Following(orders, page)
  /\ (pc = "done" /\ call.op = "list" /\ Is2xx(response)
      /\ Delivered.links.next = 0 /\ Delivered.items # <<>>) =>
       Delivered.items[Len(Delivered.items)] = OrderModel(orders[Len(orders)])
  /\ inflight <= 1
  /\ Len(requests) <= 1

C6_Witness ==
  /\ pc = "done"
  /\ FollowsNextLink
  /\ Is2xx(response)
  /\ Delivered.items # <<>>
  /\ Delivered.items = Following(orders, page)

\* C7: a successful list returns a List with one Model per embedded item, in
\* response order, carrying the response's links; for an empty collection
\* it has no items and neither next nor previous link
C7_ListMirrorsCollection ==
  (pc = "done" /\ call.op = "list" /\ Is2xx(response)) =>
    /\ Delivered.k = "list"
    /\ Len(Delivered.items) = Len(response.body.embedded)
    /\ Len(Delivered.items) = response.body.count
    /\ \A i \in 1..Len(Delivered.items) :
         Delivered.items[i].id = response.body.embedded[i].id
    /\ Delivered.links = response.body.links
    /\ orders = <<>> =>
         (Delivered.items = <<>> /\ Delivered.links = NoLinks)

C7_Witness ==
  /\ pc = "done"
  /\ call.op = "list"
  /\ Is2xx(response)
  /\ Len(Delivered.items) >= 2
  /\ Delivered.items[1].id # Delivered.items[2].id

\* C8 as stated: the model built from props has exactly the fields and values
\* of props
C8_ModelEqualsProps ==
  capture.built => capture.model = props

\* C8 amended: every field of props is in the model with the value of props,
\* every other field of the model is a declared field holding its default,
\* and the model equals props when props supplies every declared field
C8_PropsOverDefaults ==
  capture.built =>
    /\ DOMAIN capture.model = DOMAIN props \cup DOMAIN CaptureDefaults
    /\ \A f \in DOMAIN props : capture.model[f] = props[f]
    /\ \A f \in DOMAIN capture.model \ DOMAIN props :
         capture.model[f] = CaptureDefaults[f]
    /\ (DOMAIN CaptureDefaults \subseteq DOMAIN props) =>
         capture.model = props

C8_Witness ==
  /\ capture.built
  /\ "id" \in DOMAIN props
  /\ "mode" \notin DOMAIN props
  /\ capture.model["id"] = "cpt_4qqhO89gsT"
  /\ capture.model["mode"] = "null"

\* the same call with the callback moved from params to cb
WithExplicitNull == [call EXCEPT !.params = Null, !.cb = call.params]

\* C9: a call whose params is a function behaves as the call with params
\* null and that function as cb: get(id, f) as get(id, null, f), list(f) as
\* list(null, f), cancel(id, f) as cancel(id, null, f)
C9_LegacyPositionEquivalent ==
  (pc = "done" /\ call.op \in {"get", "list", "cancel"}
   /\ IsFunction(call.params)) =>
    LET o == Outcome(WithExplicitNull, response)
    IN  /\ cbLog = o.cbLog
        /\ promise = o.promise
        /\ requests = o.requests

\* C10: get/update/cancel invoke a supplied callback exactly once, with the
\* validation error when the id lacks the prefix
C10_CallbackExactlyOnce ==
  (pc = "done" /\ call.op \in {"get", "update", "cancel"} /\ UsesCallback) =>
    /\ Len(cbLog) = 1
    /\ InvalidIdCall => cbLog[1].err = ApiError(InvalidOrderId)

====
